---- MODULE Spec2Model ----
(***************************************************************************)
(* Meshinery (meshinery/cli.py): the life cycle of one orchestration run.  *)
(* main() loads a graph, optionally cleans, prepares one network namespace *)
(* per node and one veth pair per edge, launches the per-node commands,    *)
(* waits for a key press and cleans up.  SIGINT/SIGTERM run handle_sigint, *)
(* which cleans the shared graph and exits.                                *)
(*                                                                         *)
(* The host is modelled by its namespace table, by the veth pairs and the  *)
(* place of each of their two ends, and by one workload process per node.  *)
(***************************************************************************)
EXTENDS Integers, Sequences, FiniteSets, TLC

\* Number of nodes of the graph; the edges form the chain 1-2, 2-3, ...
NumNodes == 2

\* cli.py:24, in milliseconds
DEFAULT_COMMAND_EXIT_TIMEOUT == 200

Nodes == 1..NumNodes
NumEdges == NumNodes - 1
EdgeIdx == 1..NumEdges

\* graph.edges: every undirected edge once, as (node_name, neigh_name)
Edges == [e \in EdgeIdx |-> <<e, e + 1>>]

\* Python's None for an absent node attribute
None == 0 - 1

\* The values of the "command" attribute that are told apart: none, an
\* executable that does not exist, and workloads that exit quickly on
\* SIGTERM ("fast"), slowly ("slow"), or by themselves at any time ("crashy").
Workloads == {"fast", "slow", "crashy"}

\* Milliseconds a workload needs to exit once SIGTERM has been delivered
Latency(cmd) == IF cmd = "slow" THEN 300 ELSE 100

\* A variant of NsName without the node's name in it (cli.py:137)
NsName_NoNode(instance_id, node_name) == <<"meshinery", instance_id>>

\* 'meshinery-{}-{}'.format(instance_id, node_name)
NsName(instance_id, node_name) == <<"meshinery", instance_id, node_name>>

\* '{}-{}'.format(node_name, neigh_name)
IfName(a, b) == <<a, b>>

\* --id ID
InstanceId == "t1"

\* --id of a second orchestration of the same graph on the same host
OtherId == "t2"

\* The second orchestration: where it is in prepare_namespaces, and where
\* the veth pair it made for each edge is: both ends in the default
\* namespace ("host"), the node end moved ("half"), both moved ("ns").
OtherOff == [pc |-> "off", idx |-> 0, veth |-> [e \in EdgeIdx |-> "none"]]

\* Two veth pairs of one edge can exist at a time: one with an end in the
\* default namespace, one with both ends inside namespaces.
Slots == {1, 2}
NoPair == [node |-> "none", neigh |-> "none"]

VARIABLES
    args,        \* docopt(USAGE): --dry-run, --strays, --clean and the clean command
    MARGS,       \* _MESHINERY_ARGS has been set
    MGRAPH,      \* _MESHINERY_GRAPH has been set
    graph,       \* node attributes, runtime annotations included
    nsTable,     \* names in the host's namespace table
    veth,        \* per edge and slot: where the node end and the neigh end are
    proc,        \* per node: the workload process ("none", "running", "exited")
    remaining,   \* per node: ms until the process exits after SIGTERM (None: no SIGTERM yet)
    pc, idx, step, \* position of the control flow
    exit_code,   \* None while running
    exit_by,     \* how the process ended
    cl,          \* what the clean call in progress (or last finished) has done
    lastDone,    \* "clean" right after a clean has returned with nothing done since
    kills,       \* SIGKILLs delivered per node
    mutated,     \* a system-mutating call has taken effect
    nested,      \* an interrupt arrived while a clean was in progress
    caller,      \* "main" for a run of the command, "lib" for a caller of the module
    passes,      \* calls of prepare_namespaces begun
    held,        \* nodes whose namespace this process has open through a NetNS
    other        \* a second orchestration on the same host, with another --id

vars == <<args, MARGS, MGRAPH, graph, nsTable, veth, proc, remaining, pc, idx,
          step, exit_code, exit_by, cl, lastDone, kills, mutated, nested, caller,
          passes, held, other>>

hostVars == <<nsTable, veth, proc, remaining, kills, mutated>>

\* What no step of clean, prepare_namespaces or execute changes
ctx == <<args, caller, passes>>

----------------------------------------------------------------------------
\* Inputs

\* Node attributes as loaded: "ip", "command", "command_exit_delay"; at most
\* the attributes that decide a branch of the code.
Profiles ==
    [ip : BOOLEAN, command : {"none"}, command_exit_delay : {None}]
    \cup [ip : {TRUE}, command : {"noexe"} \cup Workloads, command_exit_delay : {None}]
    \cup [ip : {TRUE}, command : {"slow"}, command_exit_delay : {400}]

Faulty(p) == ~p.ip \/ p.command = "noexe"

NodeInit(p) ==
    [ip |-> p.ip, command |-> p.command, command_exit_delay |-> p.command_exit_delay,
     netns |-> FALSE, interfaces |-> <<>>, command_handle |-> FALSE]

\* USAGE (cli.py:26-42): "--clean" belongs to the first pattern only, the
\* "clean" command to the second.
ArgSets ==
    {a \in [dry_run : BOOLEAN, strays : BOOLEAN, clean_flag : BOOLEAN, clean_cmd : BOOLEAN] :
        ~(a.clean_flag /\ a.clean_cmd)}

\* What an earlier run with the same instance id may have left on the host:
\* nothing; what a run leaves that was killed right after creating the first
\* veth pair (cli.py:178), that failed while fabricating the first edge
\* (cli.py:187), or that was killed after preparation.
PreHosts ==
    {"empty"} \cup (IF NumEdges >= 1 THEN {"stray", "partial", "full"} ELSE {})

PreNs(h) ==
    CASE h = "empty" -> {}
      [] h = "stray" -> {NsName(InstanceId, n) : n \in Nodes}
      [] h = "partial" -> {NsName(InstanceId, n) : n \in Nodes}
      [] h = "full" -> {NsName(InstanceId, n) : n \in Nodes}

PreVeth(h) ==
    [e \in EdgeIdx |->
        [s \in Slots |->
            IF s = 1 /\ h = "full" THEN [node |-> "ns", neigh |-> "ns"]
            ELSE IF s = 1 /\ h = "stray" /\ e = 1 THEN [node |-> "host", neigh |-> "host"]
            ELSE IF s = 1 /\ h = "partial" /\ e = 1 THEN [node |-> "ns", neigh |-> "host"]
            ELSE NoPair]]

NoClean ==
    [second |-> FALSE, rmns |-> {}, warned |-> {}, term |-> {}, sigterm |-> {},
     slept |-> {}, aliveAfter |-> {}, killed |-> {}, done |-> {}, rmif |-> {}]

Init ==
    /\ args \in ArgSets
    /\ MARGS = FALSE
    /\ MGRAPH = FALSE
    /\ \E ps \in [Nodes -> Profiles] :
          /\ Cardinality({n \in Nodes : Faulty(ps[n])}) <= 1
          /\ graph = [n \in Nodes |-> NodeInit(ps[n])]
    /\ \E h \in PreHosts : nsTable = PreNs(h) /\ veth = PreVeth(h)
    /\ proc = [n \in Nodes |-> "none"]
    /\ remaining = [n \in Nodes |-> None]
    /\ pc = "docopt" /\ idx = 0 /\ step = "-"
    /\ exit_code = None
    /\ exit_by = "-"
    /\ cl = NoClean
    /\ lastDone = "-"
    /\ kills = [n \in Nodes |-> 0]
    /\ mutated = FALSE
    /\ nested = FALSE
    /\ caller = "main"
    /\ passes = 0
    /\ held = {}
    /\ other = OtherOff

----------------------------------------------------------------------------
\* The host

Ns(n) == NsName(InstanceId, n)

\* An end named IfName(a, b) of edge e is in the default namespace
InHost(e, end) == \E s \in Slots : veth[e][s][end] = "host"

\* A name of edge e is in the default namespace as an interface of the
\* second orchestration: both names until the node end has moved, then the
\* name of the neigh end
OtherInHost(e, end) ==
    \/ other.veth[e] = "host"
    \/ other.veth[e] = "half" /\ end = "neigh"

\* ... is inside the namespace of its owner
InNs(e, end) == \E s \in Slots : veth[e][s][end] = "ns"

FreeSlot(e) == CHOOSE s \in Slots : veth[e][s] = NoPair

\* netns.remove(name): the namespace goes, and with it the veth ends inside
\* it; a veth end never outlives its peer.
VethWithoutNs(n) ==
    [e \in EdgeIdx |->
        [s \in Slots |->
            IF \/ (Edges[e][1] = n /\ veth[e][s].node = "ns")
               \/ (Edges[e][2] = n /\ veth[e][s].neigh = "ns")
            THEN NoPair ELSE veth[e][s]]]

\* netns.remove(name) takes the name away; the namespace itself, and what
\* is inside, lasts as long as a process has it open, and this process has
\* it open once it has made a NetNS for it (cli.py:141, 167-168: none is
\* closed, and a workload is launched only into a namespace opened so).
VethAfterRemove(n) == IF n \in held THEN veth ELSE VethWithoutNs(n)

\* ipdb.interfaces[if_name].remove() in the default namespace, peer included
VethWithoutHostNode(e) ==
    [veth EXCEPT ![e] = [s \in Slots |->
        IF veth[e][s].node = "host" THEN NoPair ELSE veth[e][s]]]

----------------------------------------------------------------------------
\* Ends of the process

Exit(code, by) ==
    /\ pc' = "exited" /\ idx' = 0 /\ step' = "-"
    /\ exit_code' = code
    /\ exit_by' = by

Goto(p, i, s) == pc' = p /\ idx' = i /\ step' = s

NoExit == UNCHANGED <<exit_code, exit_by>>

----------------------------------------------------------------------------
\* clean(graph, dry_run, instance_id, strays)   (cli.py:49-121)

CleanPcs == {"preclean", "failclean", "endclean", "handler"}

\* Every call site passes args['--dry-run']; the call of the failure path
\* (cli.py:313) passes no strays.
CleanDryRun == args.dry_run
CleanStrays == IF pc = "failclean" THEN FALSE ELSE args.strays

\* node.get('command_exit_delay', DEFAULT_COMMAND_EXIT_TIMEOUT)
ExitDelay(n) ==
    IF graph[n].command_exit_delay = None THEN DEFAULT_COMMAND_EXIT_TIMEOUT
    ELSE graph[n].command_exit_delay

StartClean(p) ==
    /\ Goto(p, 1, "rm")
    /\ cl' = [NoClean EXCEPT !.second = (lastDone = "clean")]
    /\ lastDone' = "-"

\* The end of the node loop (cli.py:64) and what follows it (cli.py:111)
CleanNextNode(n) ==
    IF n < NumNodes THEN Goto(pc, n + 1, "rm") /\ UNCHANGED lastDone
    ELSE IF CleanStrays /\ NumEdges >= 1 THEN Goto(pc, 1, "stray") /\ UNCHANGED lastDone
    ELSE Goto(pc, 0, "ret") /\ lastDone' = "clean"

\* A variant of CleanRemoveNs with the test of dry_run inverted (cli.py:68)
CleanRemoveNs_DryInverted ==
    /\ pc \in CleanPcs /\ step = "rm"
    /\ IF CleanDryRun /\ Ns(idx) \in nsTable
       THEN /\ nsTable' = nsTable \ {Ns(idx)}
            /\ veth' = VethAfterRemove(idx)
            /\ mutated' = TRUE
            /\ cl' = [cl EXCEPT !.rmns = @ \cup {idx}]
       ELSE UNCHANGED <<nsTable, veth, mutated, cl>>
    /\ Goto(pc, idx, "handle")
    /\ NoExit
    /\ UNCHANGED <<ctx, other, held, MARGS, MGRAPH, graph, proc, remaining, lastDone, kills, nested>>

\* cli.py:66-74: netns.remove unless dry_run; FileNotFoundError is swallowed.
CleanRemoveNs ==
    /\ pc \in CleanPcs /\ step = "rm"
    /\ IF ~CleanDryRun /\ Ns(idx) \in nsTable
       THEN /\ nsTable' = nsTable \ {Ns(idx)}
            /\ veth' = VethAfterRemove(idx)
            /\ mutated' = TRUE
            /\ cl' = [cl EXCEPT !.rmns = @ \cup {idx}]
       ELSE UNCHANGED <<nsTable, veth, mutated, cl>>
    /\ Goto(pc, idx, "handle")
    /\ NoExit
    /\ UNCHANGED <<ctx, other, held, MARGS, MGRAPH, graph, proc, remaining, lastDone, kills, nested>>

\* cli.py:77-78, 106-107: no handle, nothing to stop
CleanNoCommand ==
    /\ pc \in CleanPcs /\ step = "handle"
    /\ ~graph[idx].command_handle
    /\ cl' = [cl EXCEPT !.done = @ \cup {idx}]
    /\ CleanNextNode(idx)
    /\ NoExit
    /\ UNCHANGED <<ctx, other, held, MARGS, MGRAPH, graph, hostVars, nested>>

\* cli.py:79-87: the warning for a command that is not running, then
\* terminate() whatever poll() said; Popen.terminate() signals only a
\* process that has not exited.  The debug line reads node['netns'].
CleanTerminate ==
    /\ pc \in CleanPcs /\ step = "handle"
    /\ graph[idx].command_handle
    /\ IF ~graph[idx].netns
       THEN /\ Exit(1, "uncaught")
            /\ cl' = [cl EXCEPT !.term = @ \cup {idx}]
            /\ UNCHANGED <<remaining, mutated>>
       ELSE /\ Goto(pc, idx, "sleep")
            /\ NoExit
            /\ cl' = [cl EXCEPT
                        !.warned = IF proc[idx] = "exited" THEN @ \cup {idx} ELSE @,
                        !.term = @ \cup {idx},
                        !.sigterm = IF proc[idx] = "running" THEN @ \cup {idx} ELSE @]
            /\ IF proc[idx] = "running"
               THEN /\ remaining' = [remaining EXCEPT ![idx] =
                                       IF @ = None THEN Latency(graph[idx].command) ELSE @]
                    /\ mutated' = TRUE
               ELSE UNCHANGED <<remaining, mutated>>
    /\ UNCHANGED <<ctx, other, held, MARGS, MGRAPH, graph, nsTable, veth, proc, lastDone, kills, nested>>

\* cli.py:90-92: time.sleep(command_exit_delay); a process that has been
\* sent SIGTERM exits once its latency has passed.
CleanSleep ==
    /\ pc \in CleanPcs /\ step = "sleep"
    /\ LET left == IF remaining[idx] = None THEN None
                   ELSE IF remaining[idx] > ExitDelay(idx)
                        THEN remaining[idx] - ExitDelay(idx) ELSE 0
           exits == proc[idx] = "running" /\ left = 0
       IN /\ remaining' = [remaining EXCEPT ![idx] = left]
          /\ proc' = [proc EXCEPT ![idx] = IF exits THEN "exited" ELSE @]
          /\ cl' = [cl EXCEPT
                      !.slept = @ \cup {idx},
                      !.aliveAfter = IF proc[idx] = "running" /\ ~exits
                                     THEN @ \cup {idx} ELSE @]
    /\ Goto(pc, idx, "poll")
    /\ NoExit
    /\ UNCHANGED <<ctx, other, held, MARGS, MGRAPH, graph, nsTable, veth, lastDone, kills, mutated, nested>>

\* A variant of CleanPollKill without the test of poll() (cli.py:95)
CleanPollKill_Always ==
    /\ pc \in CleanPcs /\ step = "poll"
    /\ proc' = [proc EXCEPT ![idx] = IF @ = "running" THEN "exited" ELSE @]
    /\ kills' = [kills EXCEPT ![idx] = IF @ < 2 THEN @ + 1 ELSE @]
    /\ mutated' = TRUE
    /\ cl' = [cl EXCEPT !.killed = @ \cup {idx}, !.done = @ \cup {idx}]
    /\ CleanNextNode(idx)
    /\ NoExit
    /\ UNCHANGED <<ctx, other, held, MARGS, MGRAPH, graph, nsTable, veth, remaining, nested>>

\* cli.py:95-105: kill() if poll() is None, then communicate()
CleanPollKill ==
    /\ pc \in CleanPcs /\ step = "poll"
    /\ IF proc[idx] = "running"
       THEN /\ proc' = [proc EXCEPT ![idx] = "exited"]
            /\ kills' = [kills EXCEPT ![idx] = IF @ < 2 THEN @ + 1 ELSE @]
            /\ mutated' = TRUE
            /\ cl' = [cl EXCEPT !.killed = @ \cup {idx}, !.done = @ \cup {idx}]
       ELSE /\ cl' = [cl EXCEPT !.done = @ \cup {idx}]
            /\ UNCHANGED <<proc, kills, mutated>>
    /\ CleanNextNode(idx)
    /\ NoExit
    /\ UNCHANGED <<ctx, other, held, MARGS, MGRAPH, graph, nsTable, veth, remaining, nested>>

\* cli.py:111-121: remove the interface named "a-b" of every edge from the
\* default namespace, whoever made it; KeyError is swallowed.  dry_run is
\* not consulted.
CleanStray ==
    /\ pc \in CleanPcs /\ step = "stray"
    /\ IF InHost(idx, "node")
       THEN /\ veth' = VethWithoutHostNode(idx)
            /\ mutated' = TRUE
            /\ cl' = [cl EXCEPT !.rmif = @ \cup {idx}]
            /\ UNCHANGED other
       ELSE IF OtherInHost(idx, "node")
       THEN /\ other' = [other EXCEPT !.veth[idx] = "none"]
            /\ mutated' = TRUE
            /\ cl' = [cl EXCEPT !.rmif = @ \cup {idx}]
            /\ UNCHANGED veth
       ELSE UNCHANGED <<veth, mutated, cl, other>>
    /\ IF idx < NumEdges THEN Goto(pc, idx + 1, "stray") /\ UNCHANGED lastDone
       ELSE Goto(pc, 0, "ret") /\ lastDone' = "clean"
    /\ NoExit
    /\ UNCHANGED <<ctx, held, MARGS, MGRAPH, graph, nsTable, proc, remaining, kills, nested>>

----------------------------------------------------------------------------
\* prepare_namespaces(graph, dry_run, instance_id)   (cli.py:123-203)

\* An exception leaves prepare_namespaces: main() calls it outside any try
\* (cli.py:304), so the interpreter ends with a traceback and exit code 1.
\* A caller of the module is left with the exception.
PrepRaises ==
    IF caller = "main" THEN Exit(1, "prepare_error")
    ELSE Goto("raised", 0, "-") /\ NoExit

\* A variant of PrepAfterNodes that starts the edges after each node
\* (cli.py:136, 156)
PrepAfterNodes_Early(n) ==
    IF NumEdges >= 1 THEN Goto("prepare", 1, "veth")
    ELSE Goto("prepare", 0, "release")

PrepAfterNodes(n) ==
    IF n < NumNodes THEN Goto("prepare", n + 1, "ns")
    ELSE IF NumEdges >= 1 THEN Goto("prepare", 1, "veth")
    ELSE Goto("prepare", 0, "release")

PrepAfterEdge(e) ==
    IF e < NumEdges THEN Goto("prepare", e + 1, "veth")
    ELSE Goto("prepare", 0, "release")

\* cli.py:137-150, live: NetNS(ns_name) opens the namespace and creates it
\* when it does not exist; lo up; sysctl forwarding.  The NetNS is never
\* closed.
PrepCreateNs ==
    /\ pc = "prepare" /\ step = "ns"
    /\ ~args.dry_run
    /\ nsTable' = nsTable \cup {Ns(idx)}
    /\ mutated' = TRUE
    /\ held' = held \cup {idx}
    /\ Goto("prepare", idx, "annot")
    /\ NoExit
    /\ UNCHANGED <<ctx, other, MARGS, MGRAPH, graph, veth, proc, remaining, cl, lastDone, kills, nested>>

\* cli.py:152-153
PrepAnnotate ==
    /\ pc = "prepare" /\ step = "annot"
    /\ graph' = [graph EXCEPT ![idx].netns = TRUE, ![idx].interfaces = <<>>]
    /\ PrepAfterNodes(idx)
    /\ NoExit
    /\ UNCHANGED <<ctx, other, held, MARGS, MGRAPH, hostVars, cl, lastDone, nested>>

\* cli.py:137-139, dry run: the log line only
PrepNodeDry ==
    /\ pc = "prepare" /\ step = "ns"
    /\ args.dry_run
    /\ PrepAfterNodes(idx)
    /\ NoExit
    /\ UNCHANGED <<ctx, other, held, MARGS, MGRAPH, graph, hostVars, cl, lastDone, nested>>

\* cli.py:156-164, 201, dry run: the names and the log line only
FabEdgeDry ==
    /\ pc = "prepare" /\ step = "veth"
    /\ args.dry_run
    /\ PrepAfterEdge(idx)
    /\ NoExit
    /\ UNCHANGED <<ctx, other, held, MARGS, MGRAPH, graph, hostVars, cl, lastDone, nested>>

\* cli.py:167-178: open both namespaces, then create the veth pair in the
\* default namespace; the creation fails when one of the names is taken.
FabCreateVeth ==
    /\ pc = "prepare" /\ step = "veth"
    /\ ~args.dry_run
    /\ LET a == Edges[idx][1]
           b == Edges[idx][2]
       IN IF ~graph[a].netns \/ ~graph[b].netns
          THEN PrepRaises /\ UNCHANGED <<nsTable, held, veth, mutated>>
          ELSE /\ nsTable' = nsTable \cup {Ns(a), Ns(b)}
               /\ held' = held \cup {a, b}
               /\ IF \/ InHost(idx, "node") \/ InHost(idx, "neigh")
                     \/ OtherInHost(idx, "node") \/ OtherInHost(idx, "neigh")
                  THEN PrepRaises /\ UNCHANGED <<veth, mutated>>
                  ELSE /\ veth' = [veth EXCEPT ![idx][FreeSlot(idx)] =
                                     [node |-> "host", neigh |-> "host"]]
                       /\ mutated' = TRUE
                       /\ Goto("prepare", idx, "node")
                       /\ NoExit
    /\ UNCHANGED <<ctx, other, MARGS, MGRAPH, graph, proc, remaining, cl, lastDone, kills, nested>>

\* The slot of the pair created last: the one with the node end in the
\* default namespace
HostSlot(e) == CHOOSE s \in Slots : veth[e][s].node = "host"

\* cli.py:181-184: move the node end into the node's namespace (refused
\* when the name exists there), then add node['ip'] and bring it up
FabMoveNode ==
    /\ pc = "prepare" /\ step = "node"
    /\ IF InNs(idx, "node")
       THEN PrepRaises /\ UNCHANGED veth
       ELSE /\ veth' = [veth EXCEPT ![idx][HostSlot(idx)].node = "ns"]
            /\ IF ~graph[Edges[idx][1]].ip
               THEN PrepRaises
               ELSE Goto("prepare", idx, "neigh") /\ NoExit
    /\ UNCHANGED <<ctx, other, held, MARGS, MGRAPH, graph, nsTable, proc, remaining, cl, lastDone,
                   kills, mutated, nested>>

\* The slot of the pair being fabricated once its node end has moved
NeighSlot(e) == CHOOSE s \in Slots : veth[e][s].neigh = "host"

\* cli.py:187-201: add neigh['ip'], move the neigh end into the neighbour's
\* namespace, bring it up, record both interface names
FabMoveNeigh ==
    /\ pc = "prepare" /\ step = "neigh"
    /\ LET a == Edges[idx][1]
           b == Edges[idx][2]
       IN IF ~graph[b].ip \/ InNs(idx, "neigh")
          THEN PrepRaises /\ UNCHANGED <<veth, graph>>
          ELSE /\ veth' = [veth EXCEPT ![idx][NeighSlot(idx)].neigh = "ns"]
               /\ graph' = [graph EXCEPT
                              ![a].interfaces = Append(@, IfName(a, b)),
                              ![b].interfaces = Append(@, IfName(b, a))]
               /\ PrepAfterEdge(idx)
               /\ NoExit
    /\ UNCHANGED <<ctx, other, held, MARGS, MGRAPH, nsTable, proc, remaining, cl, lastDone,
                   kills, mutated, nested>>

----------------------------------------------------------------------------
\* execute(graph, dry_run, instance_id)   (cli.py:205-259)

\* A variant of ExecRaises without the call of clean (cli.py:313)
ExecRaises_NoClean == Goto("failclean", 0, "ret") /\ UNCHANGED <<cl, lastDone>>

\* An exception leaves execute: main() catches it, cleans without strays and
\* exits with code 1 (cli.py:310-314).
ExecRaises == StartClean("failclean")

ExecAfterNode(n) ==
    IF n < NumNodes THEN Goto("execute", n + 1, "spawn")
    ELSE Goto("execute", 0, "ret")

\* A variant of ExecNoCommand that leaves the loop instead of continuing it
\* (cli.py:226)
ExecNoCommand_Return ==
    /\ pc = "execute" /\ step = "spawn"
    /\ graph[idx].command = "none"
    /\ Goto("execute", 0, "ret")
    /\ NoExit
    /\ UNCHANGED <<ctx, other, held, MARGS, MGRAPH, graph, hostVars, cl, lastDone, nested>>

\* cli.py:224-226
ExecNoCommand ==
    /\ pc = "execute" /\ step = "spawn"
    /\ graph[idx].command = "none"
    /\ ExecAfterNode(idx)
    /\ NoExit
    /\ UNCHANGED <<ctx, other, held, MARGS, MGRAPH, graph, hostVars, cl, lastDone, nested>>

\* cli.py:229-254: NSPopen(node['netns'], command_line, ...); dry_run is
\* not consulted.  KeyError without 'netns', FileNotFoundError without the
\* executable; both are raised again.
ExecSpawn ==
    /\ pc = "execute" /\ step = "spawn"
    /\ graph[idx].command # "none"
    /\ IF ~graph[idx].netns \/ graph[idx].command = "noexe"
       THEN ExecRaises /\ UNCHANGED <<nsTable, proc, mutated>>
       ELSE /\ nsTable' = nsTable \cup {Ns(idx)}
            /\ proc' = [proc EXCEPT ![idx] = "running"]
            /\ mutated' = TRUE
            /\ Goto("execute", idx, "store")
            /\ UNCHANGED <<cl, lastDone>>
    /\ NoExit
    /\ UNCHANGED <<ctx, other, held, MARGS, MGRAPH, graph, veth, remaining, kills, nested>>

\* cli.py:245: the assignment of the handle to node['command_handle']
ExecStore ==
    /\ pc = "execute" /\ step = "store"
    /\ graph' = [graph EXCEPT ![idx].command_handle = TRUE]
    /\ Goto("execute", idx, "write")
    /\ NoExit
    /\ UNCHANGED <<ctx, other, held, MARGS, MGRAPH, hostVars, cl, lastDone, nested>>

\* cli.py:256-257: write and flush the attributes; BrokenPipeError when the
\* command has exited already
ExecWrite ==
    /\ pc = "execute" /\ step = "write"
    /\ IF proc[idx] = "exited"
       THEN ExecRaises
       ELSE ExecAfterNode(idx) /\ UNCHANGED <<cl, lastDone>>
    /\ NoExit
    /\ UNCHANGED <<ctx, other, held, MARGS, MGRAPH, graph, hostVars, nested>>

\* A command that ends by itself
ProcExitsEarly(n) ==
    /\ pc # "exited"
    /\ graph[n].command = "crashy"
    /\ proc[n] = "running"
    /\ proc' = [proc EXCEPT ![n] = "exited"]
    /\ UNCHANGED <<ctx, other, held, MARGS, MGRAPH, graph, nsTable, veth, remaining, pc, idx,
                   step, exit_code, exit_by, cl, lastDone, kills, mutated, nested>>

----------------------------------------------------------------------------
\* main()   (cli.py:271-320); the run starts with the handlers registered
\* (cli.py:279-280)

\* cli.py:282-283
MainDocopt ==
    /\ pc = "docopt"
    /\ MARGS' = TRUE
    /\ Goto("load", 0, "-")
    /\ NoExit
    /\ UNCHANGED <<ctx, other, held, MGRAPH, graph, hostVars, cl, lastDone, nested>>

\* cli.py:293-295
MainLoadGraph ==
    /\ pc = "load"
    /\ MGRAPH' = TRUE
    /\ Goto("loaded", 0, "-")
    /\ NoExit
    /\ UNCHANGED <<ctx, other, held, MARGS, graph, hostVars, cl, lastDone, nested>>

\* cli.py:297-298
MainPreClean ==
    /\ pc = "loaded"
    /\ args.clean_flag
    /\ StartClean("preclean")
    /\ NoExit
    /\ UNCHANGED <<ctx, other, held, MARGS, MGRAPH, graph, hostVars, nested>>

\* cli.py:300-304: return for the clean command, else prepare_namespaces
MainAfterPreClean ==
    /\ pc \in {"loaded", "preclean"}
    /\ pc = "loaded" => ~args.clean_flag
    /\ pc = "preclean" => step = "ret"
    /\ IF args.clean_cmd
       THEN Exit(0, "clean_only") /\ UNCHANGED <<lastDone, passes>>
       ELSE Goto("prepare", 1, "ns") /\ lastDone' = "-" /\ passes' = passes + 1 /\ NoExit
    /\ UNCHANGED <<args, caller, other, held, MARGS, MGRAPH, graph, hostVars, cl, nested>>

\* cli.py:203: ipdb.release(); ipdb is bound only by the live branches, so
\* a dry run raises UnboundLocalError here.  Then cli.py:307-308.
PrepRelease ==
    /\ pc = "prepare" /\ step = "release"
    /\ IF args.dry_run
       THEN PrepRaises
       ELSE /\ IF caller = "main" THEN Goto("execute", 1, "spawn")
               ELSE Goto("api", 0, "-")
            /\ NoExit
    /\ UNCHANGED <<ctx, other, held, MARGS, MGRAPH, graph, hostVars, cl, lastDone, nested>>

\* cli.py:259, 309, 316-317: execute returns, main waits for a key
ExecReturn ==
    /\ pc = "execute" /\ step = "ret"
    /\ Goto("input", 0, "-")
    /\ NoExit
    /\ UNCHANGED <<ctx, other, held, MARGS, MGRAPH, graph, hostVars, cl, lastDone, nested>>

\* cli.py:317-319: the key press, then the clean at the end of the run
MainInput ==
    /\ pc = "input"
    /\ StartClean("endclean")
    /\ NoExit
    /\ UNCHANGED <<ctx, other, held, MARGS, MGRAPH, graph, hostVars, nested>>

\* cli.py:320: 'Bye!' and the return from main
MainBye ==
    /\ pc = "endclean" /\ step = "ret"
    /\ Exit(0, "bye")
    /\ UNCHANGED <<ctx, other, held, MARGS, MGRAPH, graph, hostVars, cl, lastDone, nested>>

\* cli.py:314: sys.exit(1) after the clean of the failure path
MainSysExit ==
    /\ pc = "failclean" /\ step = "ret"
    /\ Exit(1, "launch_error")
    /\ UNCHANGED <<ctx, other, held, MARGS, MGRAPH, graph, hostVars, cl, lastDone, nested>>

----------------------------------------------------------------------------
\* handle_sigint(signal, frame)   (cli.py:262-268)

\* The handler runs between two steps of whatever is executing; it never
\* returns to it: clean, then exit(0).  With _MESHINERY_ARGS or
\* _MESHINERY_GRAPH still None it raises TypeError.
HandleSigint ==
    /\ pc # "exited"
    /\ IF ~MARGS \/ ~MGRAPH
       THEN Exit(1, "handler_error") /\ UNCHANGED <<cl, lastDone, nested>>
       ELSE /\ StartClean("handler")
            /\ nested' = (nested \/ (pc \in CleanPcs /\ step # "ret"))
            /\ NoExit
    /\ UNCHANGED <<ctx, other, held, MARGS, MGRAPH, graph, hostVars>>

\* cli.py:268
HandlerExit ==
    /\ pc = "handler" /\ step = "ret"
    /\ Exit(0, "sigint")
    /\ UNCHANGED <<ctx, other, held, MARGS, MGRAPH, graph, hostVars, cl, lastDone, nested>>

----------------------------------------------------------------------------
Next ==
    \/ MainDocopt
    \/ MainLoadGraph
    \/ MainPreClean
    \/ MainAfterPreClean
    \/ PrepCreateNs
    \/ PrepAnnotate
    \/ PrepNodeDry
    \/ FabEdgeDry
    \/ FabCreateVeth
    \/ FabMoveNode
    \/ FabMoveNeigh
    \/ PrepRelease
    \/ ExecNoCommand
    \/ ExecSpawn
    \/ ExecStore
    \/ ExecWrite
    \/ ExecReturn
    \/ MainInput
    \/ CleanRemoveNs
    \/ CleanNoCommand
    \/ CleanTerminate
    \/ CleanSleep
    \/ CleanPollKill
    \/ CleanStray
    \/ MainBye
    \/ MainSysExit
    \/ HandleSigint
    \/ HandlerExit
    \/ \E n \in Nodes : ProcExitsEarly(n)

Spec == Init /\ [][Next]_vars

----------------------------------------------------------------------------
\* prepare_namespaces used as a function of the module: a caller prepares
\* the same graph up to MaxCalls times.

MaxCalls == 2

InitLib ==
    /\ args \in {a \in ArgSets : ~a.clean_flag /\ ~a.clean_cmd /\ ~a.strays}
    /\ MARGS = FALSE
    /\ MGRAPH = FALSE
    /\ \E ps \in [Nodes -> Profiles] :
          /\ Cardinality({n \in Nodes : Faulty(ps[n])}) <= 1
          /\ graph = [n \in Nodes |-> NodeInit(ps[n])]
    /\ \E h \in PreHosts : nsTable = PreNs(h) /\ veth = PreVeth(h)
    /\ proc = [n \in Nodes |-> "none"]
    /\ remaining = [n \in Nodes |-> None]
    /\ pc = "api" /\ idx = 0 /\ step = "-"
    /\ exit_code = None
    /\ exit_by = "-"
    /\ cl = NoClean
    /\ lastDone = "-"
    /\ kills = [n \in Nodes |-> 0]
    /\ mutated = FALSE
    /\ nested = FALSE
    /\ caller = "lib"
    /\ passes = 0
    /\ held = {}
    /\ other = OtherOff

\* prepare_namespaces(graph, dry_run=..., instance_id=...)
CallPrepare ==
    /\ pc = "api"
    /\ passes < MaxCalls
    /\ passes' = passes + 1
    /\ Goto("prepare", 1, "ns")
    /\ NoExit
    /\ UNCHANGED <<args, caller, other, held, MARGS, MGRAPH, graph, hostVars, cl, lastDone, nested>>

NextLib ==
    \/ CallPrepare
    \/ PrepCreateNs
    \/ PrepAnnotate
    \/ PrepNodeDry
    \/ FabEdgeDry
    \/ FabCreateVeth
    \/ FabMoveNode
    \/ FabMoveNeigh
    \/ PrepRelease

SpecLib == InitLib /\ [][NextLib]_vars

----------------------------------------------------------------------------
\* Two orchestrations of the same graph on one host: the one above, with
\* InstanceId, and a second live one with OtherId that prepares its
\* namespaces and links at its own pace.  The namespace table and the
\* default namespace are the host's, shared by both.

\* What a step of the second orchestration leaves alone
mainVars == <<args, MARGS, MGRAPH, graph, veth, proc, remaining, pc, idx, step,
              exit_code, exit_by, cl, lastDone, kills, mutated, nested, caller,
              passes, held>>

OtherAt(p, i) == [other EXCEPT !.pc = p, !.idx = i]

\* cli.py:136-150 in the second orchestration
OtherCreateNs ==
    /\ other.pc = "ns"
    /\ nsTable' = nsTable \cup {NsName(OtherId, other.idx)}
    /\ other' = IF other.idx < NumNodes THEN OtherAt("ns", other.idx + 1)
                ELSE IF NumEdges >= 1 THEN OtherAt("veth", 1)
                ELSE OtherAt("up", 0)
    /\ UNCHANGED mainVars

\* cli.py:177-178 in the second orchestration: the creation is refused when
\* one of the two names is taken in the default namespace
OtherCreateVeth ==
    /\ other.pc = "veth"
    /\ other' = IF InHost(other.idx, "node") \/ InHost(other.idx, "neigh")
                THEN OtherAt("failed", other.idx)
                ELSE [other EXCEPT !.pc = "node", !.veth[other.idx] = "host"]
    /\ UNCHANGED <<mainVars, nsTable>>

\* cli.py:181-184 in the second orchestration: KeyError when the interface
\* is not in the default namespace any more
OtherMoveNode ==
    /\ other.pc = "node"
    /\ other' = IF other.veth[other.idx] # "host"
                THEN OtherAt("failed", other.idx)
                ELSE [other EXCEPT !.pc = "neigh", !.veth[other.idx] = "half"]
    /\ UNCHANGED <<mainVars, nsTable>>

\* cli.py:187-201 in the second orchestration
OtherMoveNeigh ==
    /\ other.pc = "neigh"
    /\ other' = [other EXCEPT
                   !.veth[other.idx] = "ns",
                   !.pc = IF other.idx < NumEdges THEN "veth" ELSE "up",
                   !.idx = IF other.idx < NumEdges THEN other.idx + 1 ELSE 0]
    /\ UNCHANGED <<mainVars, nsTable>>

\* Both orchestrations start on a host that has nothing of either
InitTwo ==
    /\ args \in ArgSets
    /\ MARGS = FALSE
    /\ MGRAPH = FALSE
    /\ \E ps \in [Nodes -> Profiles] :
          /\ Cardinality({n \in Nodes : Faulty(ps[n])}) <= 1
          /\ graph = [n \in Nodes |-> NodeInit(ps[n])]
    /\ nsTable = PreNs("empty") /\ veth = PreVeth("empty")
    /\ proc = [n \in Nodes |-> "none"]
    /\ remaining = [n \in Nodes |-> None]
    /\ pc = "docopt" /\ idx = 0 /\ step = "-"
    /\ exit_code = None
    /\ exit_by = "-"
    /\ cl = NoClean
    /\ lastDone = "-"
    /\ kills = [n \in Nodes |-> 0]
    /\ mutated = FALSE
    /\ nested = FALSE
    /\ caller = "main"
    /\ passes = 0
    /\ held = {}
    /\ other = [OtherOff EXCEPT !.pc = "ns", !.idx = 1]

NextTwo ==
    \/ Next
    \/ OtherCreateNs
    \/ OtherCreateVeth
    \/ OtherMoveNode
    \/ OtherMoveNeigh

SpecTwo == InitTwo /\ [][NextTwo]_vars

----------------------------------------------------------------------------
\* Properties

NoNamespaceLeft == \A n \in Nodes : Ns(n) \notin nsTable
NoWorkloadAlive == \A n \in Nodes : proc[n] # "running"

\* C1: in a live run whose preparation and launch succeeded, once the clean
\* at the end of the run has returned, no namespace of the run exists and no
\* workload of the run is alive.
C1_EndCleanLeavesNothing ==
    (~args.dry_run /\ ((pc = "endclean" /\ step = "ret") \/ exit_by = "bye"))
        => (NoNamespaceLeft /\ NoWorkloadAlive)

\* A run that said 'Bye!' after its last clean removed every namespace and
\* had to kill a workload
C1_Witness ==
    /\ exit_by = "bye" /\ ~args.dry_run
    /\ cl.rmns = Nodes
    /\ \E n \in Nodes : n \in cl.killed

\* C2: an interrupt delivered once the graph is loaded makes the handler
\* clean the shared graph (no namespace left, no workload alive) and the
\* process end with a non-zero exit code.
C2_InterruptCleansAndExitsNonZero ==
    exit_by = "sigint" => (exit_code # 0 /\ NoNamespaceLeft /\ NoWorkloadAlive)

\* C3: when the launch of a node's command fails, the process exits with
\* code 1 only after every namespace has been removed and every workload
\* launched before has been stopped.
C3_LaunchFailureCleansBeforeExit ==
    ((pc = "failclean" /\ step = "ret") \/ exit_by = "launch_error")
        => (NoNamespaceLeft /\ NoWorkloadAlive
            /\ (exit_by = "launch_error" => exit_code = 1))

\* The executable of a later node is missing after an earlier workload was
\* started: the run ended with code 1, the earlier workload signalled
C3_Witness ==
    /\ exit_by = "launch_error" /\ exit_code = 1
    /\ cl.rmns = Nodes
    /\ \E n, m \in Nodes : n < m /\ graph[m].command = "noexe" /\ n \in cl.sigterm

\* C4: when a step of prepare_namespaces fails in a live run, clean runs
\* before the process exits with code 1: no namespace of the run is left.
C4_PrepareFailureCleans ==
    (exit_by = "prepare_error" /\ ~args.dry_run)
        => (exit_code = 1 /\ NoNamespaceLeft)

\* C5: a clean that follows a clean directly removes no namespace, signals
\* no process and waits no grace period.
C5_SecondCleanNoSideEffect ==
    cl.second =>
        (cl.rmns = {} /\ cl.sigterm = {} /\ cl.killed = {} /\ cl.slept = {}
         /\ exit_by \notin {"uncaught", "handler_error"})

\* C7: SIGTERM comes first; a workload that exits within the grace period
\* is never sent SIGKILL; one that is alive after it is sent SIGKILL, once.
C7_Escalation ==
    \A n \in Nodes :
        /\ kills[n] <= 1
        /\ n \in cl.killed => (n \in cl.sigterm /\ n \in cl.slept /\ n \in cl.aliveAfter)
        /\ (n \in cl.sigterm /\ Latency(graph[n].command) <= ExitDelay(n))
              => n \notin cl.killed
        /\ (n \in cl.done /\ n \in cl.aliveAfter) => (n \in cl.killed /\ kills[n] = 1)
        /\ (pc \in {"endclean", "failclean"} /\ n \in cl.done /\ n \in cl.sigterm
              /\ Latency(graph[n].command) > ExitDelay(n))
              => n \in cl.killed

\* One clean in which a workload left within its grace period and another
\* had to be killed
C7_Witness ==
    \E n, m \in Nodes :
        /\ n \in cl.done /\ n \in cl.sigterm /\ n \notin cl.killed
        /\ m \in cl.killed /\ kills[m] = 1

\* C8: the teardown of a node whose command has exited already warns and
\* does nothing else: no signal, no grace period; a node without a handle
\* has no process touched.
C8_ExitedHandleOnlyDrained ==
    \A n \in Nodes :
        /\ n \in cl.warned =>
              (n \notin cl.sigterm /\ n \notin cl.killed /\ n \notin cl.slept)
        /\ (n \in cl.done /\ ~graph[n].command_handle) =>
              (n \notin cl.term /\ n \notin cl.killed /\ n \notin cl.slept)

\* C9: with --dry-run no system-mutating call takes effect.
C9_DryRunMutatesNothing == args.dry_run => ~mutated

\* A live run from these inputs on this host ends with 'Bye!' unless it
\* is interrupted
LiveRunCompletes ==
    /\ \A n \in Nodes : graph[n].ip /\ graph[n].command \notin {"noexe", "crashy"}
    /\ nsTable = {}
    /\ \A e \in EdgeIdx, s \in Slots : veth[e][s] = NoPair

\* C10: a dry run takes the steps of the live run: once the node loop is
\* over every node carries its namespace name, and the run ends normally
\* whenever the live run would.
C10_DryRunLikeLive ==
    args.dry_run =>
        /\ (pc = "prepare" /\ step \in {"veth", "release"})
              => \A n \in Nodes : graph[n].netns
        /\ LiveRunCompletes => exit_by \notin {"prepare_error", "launch_error"}


\* The veth pairs of edge e that exist
Pairs(e) == {s \in Slots : veth[e][s] # NoPair}

\* C6: a second pass of prepare_namespaces over the edges, after a first
\* one that succeeded, raises no error and creates nothing: every link has
\* been created once.
C6_SecondPassCreatesNothing ==
    (caller = "lib" /\ passes = 2)
        => (pc # "raised" /\ \A e \in EdgeIdx : Cardinality(Pairs(e)) <= 1)

\* C11: the clean command cleans the graph of the instance id, so that none
\* of its namespaces exists afterwards, and exits with code 0 without
\* preparing a namespace or launching a workload.
C11_CleanOnlyCleans ==
    exit_by = "clean_only" =>
        /\ exit_code = 0
        /\ passes = 0
        /\ \A n \in Nodes : proc[n] = "none"
        /\ ~args.dry_run => NoNamespaceLeft

\* Edges of the graph that touch node n
Touching(n) == {e \in EdgeIdx : Edges[e][1] = n \/ Edges[e][2] = n}

C14_NoCommandSkipped ==
    /\ \A n \in Nodes : graph[n].command = "none" =>
          /\ proc[n] = "none"
          /\ ~graph[n].command_handle
          /\ n \notin (cl.warned \cup cl.term \cup cl.sigterm \cup cl.slept
                        \cup cl.aliveAfter \cup cl.killed)
          /\ kills[n] = 0
          /\ remaining[n] = None
    /\ pc = "input" => \A m \in Nodes : graph[m].command \in Workloads =>
          (proc[m] # "none" /\ graph[m].command_handle)

\* A run that ended normally: a node without a command came before a node
\* whose command was launched, and the last clean removed the namespace of
\* the former and did nothing else for it
C14_Witness ==
    /\ exit_by = "bye"
    /\ \E n \in Nodes, m \in Nodes :
          /\ n < m
          /\ graph[n].command = "none"
          /\ proc[m] = "exited"
          /\ n \in cl.rmns /\ n \in cl.done

\* C15: within a clean, the namespace of a node is removed only after the
\* workload launched inside it has been torn down: no node has its
\* namespace removed by the clean while its workload is still running and
\* the clean has not finished the teardown of that workload.
C15_TeardownBeforeRemoval ==
    \A n \in Nodes :
        (n \in cl.rmns /\ n \notin cl.done) => proc[n] # "running"

\* C16: right after a live preparation has opened the namespace of a node,
\* that namespace is fresh: it holds no veth end from before, whether or not
\* a namespace of that name existed already.
C16_PrepareStartsFresh ==
    (pc = "prepare" /\ step = "annot" /\ ~args.dry_run) =>
        \A e \in EdgeIdx :
            /\ Edges[e][1] = idx => ~InNs(e, "node")
            /\ Edges[e][2] = idx => ~InNs(e, "neigh")

\* C18: the cleanup driven by an interrupt never raises, wherever the
\* interrupt lands once the handler is registered: the run never ends by an
\* exception raised in the handler.
C18_HandlerNeverRaises == exit_by # "handler_error"

\* Edges that come before edge e in graph.edges and touch node n
DoneBefore(e, n) == {d \in Touching(n) : d < e}

C17_SweepLeavesNoStray ==
    (~args.dry_run /\ CleanStrays /\ pc \in CleanPcs /\ step = "ret") =>
        \A e \in EdgeIdx : ~InHost(e, "node") /\ ~InHost(e, "neigh")

\* C19: when an interrupt has arrived during a clean, the clean started by
\* it runs to its end, and a live run that exits after it leaves no
\* namespace and no running workload.
C19_NestedCleanLeavesNothing ==
    (nested /\ ~args.dry_run /\ pc = "exited") =>
        /\ exit_by = "sigint"
        /\ NoNamespaceLeft
        /\ NoWorkloadAlive

\* Names in the default namespace that the orchestration with InstanceId is
\* at the point of creating (cli.py:177) or of removing (cli.py:116)
Reaching ==
    IF ~args.dry_run /\ pc = "prepare" /\ step = "veth"
       /\ graph[Edges[idx][1]].netns /\ graph[Edges[idx][2]].netns
    THEN {IfName(Edges[idx][1], Edges[idx][2]), IfName(Edges[idx][2], Edges[idx][1])}
    ELSE IF pc \in CleanPcs /\ step = "stray"
    THEN {IfName(Edges[idx][1], Edges[idx][2])}
    ELSE {}

\* Names in the default namespace that are interfaces of the second
\* orchestration
OtherHostNames ==
    {IfName(Edges[e][1], Edges[e][2]) : e \in {d \in EdgeIdx : OtherInHost(d, "node")}}
    \cup {IfName(Edges[e][2], Edges[e][1]) : e \in {d \in EdgeIdx : OtherInHost(d, "neigh")}}

\* C13: two orchestrations with distinct instance ids never meet on a name:
\* their namespace names differ, neither reaches for an interface name that
\* the other has in the default namespace, and neither fails because of
\* what the other did there.
C13_RunsShareNoHostName ==
    /\ {NsName(InstanceId, n) : n \in Nodes} \cap {NsName(OtherId, n) : n \in Nodes} = {}
    /\ Reaching \cap OtherHostNames = {}
    /\ other.pc # "failed"

====
